---------------------------- MODULE Spec2Model ----------------------------
(***************************************************************************)
(* Template Inserter (browser extension): the background coordinator       *)
(* (template merge, cached index, context menu, click resolution) and the  *)
(* page-side insertion engine with its duplicate guard.                    *)
(*                                                                         *)
(* JavaScript values are modelled as follows.                              *)
(*   - a template record is [id, name, content]; the empty string stands   *)
(*     for a missing or empty (falsy) field;                               *)
(*   - an array is a sequence; JavaScript's 0-based index i is the         *)
(*     sequence position i + 1;                                            *)
(*   - a string the code takes apart (a menu item id, the value of a text  *)
(*     input) is a sequence of one-character strings.                      *)
(***************************************************************************)
EXTENDS Integers, Sequences, FiniteSets, TLC

VARIABLES
  \* ---- merge harness (mergeTemplates applied to drawn inputs)
  mU, mR, mOut, mDone,
  mPopupOut,        \* the list the popup's refresh() renders for the same inputs
  \* ---- page side: the focused text input and the insertion applied to it
  inValue, inStart, inEnd, inText,   \* the surface before the call, and the text
  el,                                \* the element: value, selectionStart, selectionEnd
  elEvents,                          \* what each "input" event's listener observed
  insDone,
  \* ---- page side: the document an insert request acts on
  page0,            \* the page when the request arrives
  page,             \* the page: focused element, editable region, selection, events
  pgText,           \* the text of the request
  pgDone,
  \* ---- page side: the insertTemplate message listener and its duplicate guard
  installed,        \* window.__template_insert_listener_installed
  lastInsert,       \* window.__last_template_insert
  clock,            \* Date.now(), in ms
  deliveries,       \* every insertTemplate message delivered: text, time, inserted?
  \* ---- popup and options page
  uiStore,          \* chrome.storage.sync as the pages read and write it
  uiNow,            \* Date.now(), in ms
  uiCalls,          \* the click handlers under way
  uiLog,            \* every handler that ended: the write's outcome, the status shown
  uiIssued,         \* history: the ids given to new records, in order
  \* ---- background coordinator
  cachedTemplates,      \* let cachedTemplates
  defaultTemplateIds,   \* let defaultTemplateIds
  menu,                 \* chrome.contextMenus: the entries, in creation order
  store,                \* chrome.storage.sync["templates"]
  url,                  \* chrome.storage.sync["template_json_url"]
  reloads,              \* the loadTemplates calls under way, in the order issued
  click,                \* the handleContextMenuClick call under way, if any
  \* ---- history of the background coordinator (read by the properties only)
  menuBuiltFrom,        \* the index the entries of the menu were built from
  lastFetch,            \* the fetch the last step completed: response, resolved value
  lastReload,           \* the loadTemplates call the last step ended
  lastClick             \* the handleContextMenuClick call the last step ended

mergeVars == <<mU, mR, mOut, mDone, mPopupOut>>
pageVars == <<page0, page, pgText, pgDone>>
insVars == <<inValue, inStart, inEnd, inText, el, elEvents, insDone, pageVars>>
lsnVars == <<installed, lastInsert, clock, deliveries>>
menuVars == <<cachedTemplates, defaultTemplateIds, menu>>
bgVars == <<store, url, reloads, click>>
stepVars == <<lastFetch, lastReload, lastClick>>
histVars == <<menuBuiltFrom, lastFetch, lastReload, lastClick>>
uiVars == <<uiStore, uiNow, uiCalls, uiLog, uiIssued>>
vars == <<mergeVars, insVars, lsnVars, menuVars, bgVars, histVars, uiVars>>

---------------------------------------------------------------------------
(* Generic helpers *)

Range(s) == {s[i] : i \in 1..Len(s)}

SeqsUpTo(S, n) == UNION {[1..k -> S] : k \in 0..n}

\* JavaScript truthiness of a string field (t.id, template.name, ...)
Truthy(x) == x # ""

IdsOf(ts) == {ts[i].id : i \in 1..Len(ts)}

---------------------------------------------------------------------------
(* mergeTemplates, background coordinator *)

\* defaultTemplates.forEach: the Map keeps the first record of every truthy id,
\* in insertion order
RECURSIVE DedupDefaults(_, _)
DedupDefaults(ts, acc) ==
  IF ts = <<>> THEN acc
  ELSE LET t == Head(ts) IN
       IF Truthy(t.id) /\ t.id \notin IdsOf(acc)
       THEN DedupDefaults(Tail(ts), Append(acc, t))
       ELSE DedupDefaults(Tail(ts), acc)

\* mutant: custom templates are pushed without consulting seenIds
RECURSIVE AddCustom_NoSeenCheck(_, _, _)
AddCustom_NoSeenCheck(ts, merged, seenIds) ==
  IF ts = <<>> THEN merged
  ELSE LET t == Head(ts) IN
       IF Truthy(t.id)
       THEN AddCustom_NoSeenCheck(Tail(ts), Append(merged, t), seenIds \cup {t.id})
       ELSE AddCustom_NoSeenCheck(Tail(ts), merged, seenIds)

\* customTemplates.forEach: push when the id is truthy and not seen yet
RECURSIVE AddCustomLoop(_, _, _)
AddCustomLoop(ts, merged, seenIds) ==
  IF ts = <<>> THEN merged
  ELSE LET t == Head(ts) IN
       IF Truthy(t.id) /\ t.id \notin seenIds
       THEN AddCustomLoop(Tail(ts), Append(merged, t), seenIds \cup {t.id})
       ELSE AddCustomLoop(Tail(ts), merged, seenIds)

AddCustom(ts, merged, seenIds) == AddCustomLoop(ts, merged, seenIds)

mergeTemplates(customTemplates, defaultTemplates) ==
  LET merged == DedupDefaults(defaultTemplates, <<>>)
  IN  AddCustom(customTemplates, merged, IdsOf(merged))

---------------------------------------------------------------------------
(* mergeTemplates, popup *)

\* userTemplates.forEach: push when defaultIds does not hold the id; defaultIds
\* is built once from the remote list and never grows
RECURSIVE PushUserLoop(_, _, _)
PushUserLoop(ts, merged, defaultIds) ==
  IF ts = <<>> THEN merged
  ELSE LET template == Head(ts) IN
       IF template.id \notin defaultIds
       THEN PushUserLoop(Tail(ts), Append(merged, template), defaultIds)
       ELSE PushUserLoop(Tail(ts), merged, defaultIds)

\* merged = [...defaultTemplates]: every remote record, repeated ids and
\* records without an id included
popupMergeTemplates(userTemplates, defaultTemplates) ==
  PushUserLoop(userTemplates, defaultTemplates, IdsOf(defaultTemplates))

---------------------------------------------------------------------------
(* Merge harness: inputs drawn from bounded sets, both merges applied to them *)

MaxMergeLen == 3

MergeRecs ==
  { [id |-> "",  name |-> "N", content |-> "x"],
    [id |-> "a", name |-> "N", content |-> "x"],
    [id |-> "a", name |-> "N", content |-> "y"],
    [id |-> "b", name |-> "N", content |-> "x"] }

MergeIdle ==
  /\ mU = <<>> /\ mR = <<>> /\ mOut = <<>> /\ mDone = FALSE
  /\ mPopupOut = <<>>

\* document.activeElement === null; selectionStart null reads as Null
Null == -1
NoElement ==
  [tagName |-> "", type |-> "", isContentEditable |-> FALSE, readOnly |-> FALSE,
   value |-> <<>>, selectionStart |-> Null, selectionEnd |-> Null]

\* window.getSelection() with no range
NoSelection == [rangeCount |-> 0, start |-> 0, end |-> 0]

EmptyPage ==
  [active |-> NoElement, nodes |-> <<>>, selection |-> NoSelection, events |-> <<>>]

PageIdle == page0 = EmptyPage /\ page = EmptyPage /\ pgText = <<>> /\ pgDone = FALSE

TextInputIdle ==
  /\ inValue = <<>> /\ inStart = 0 /\ inEnd = 0 /\ inText = <<>>
  /\ el = [value |-> <<>>, selectionStart |-> 0, selectionEnd |-> 0]
  /\ elEvents = <<>>
  /\ insDone = FALSE

InsIdle == TextInputIdle /\ PageIdle

\* window.__last_template_insert = { text: null, time: 0 }; hasText is FALSE
\* for the null text, which equals no message text
NoLastInsert == [hasText |-> FALSE, text |-> <<>>, time |-> 0]

LsnIdle ==
  /\ installed = FALSE
  /\ lastInsert = NoLastInsert
  /\ clock = 0
  /\ deliveries = <<>>

\* let cachedTemplates = []; let defaultTemplateIds = []; no menu entry yet
MenuIdle == cachedTemplates = <<>> /\ defaultTemplateIds = <<>> /\ menu = <<>>

\* a JSON value as loadDefaultTemplates hands it on: an array of records, or
\* anything else (an object, a string, a number, null)
Arr(items) == [isArray |-> TRUE, items |-> items]
NonArray == [isArray |-> FALSE, items |-> <<>>]

NoClick == [pc |-> "idle"]
NoFetch == [done |-> FALSE]
NoReload == [done |-> FALSE]
\* what a reload knows of the reloads issued after it that have ended before
\* it: nothing, or the index the latest of them computed
NoNewer == [applied |-> FALSE, index |-> <<>>]

\* the step ended no fetch, no reload and no click
NoStepHistory == lastFetch = NoFetch /\ lastReload = NoReload /\ lastClick = NoClick
ClearStepHistory == lastFetch' = NoFetch /\ lastReload' = NoReload /\ lastClick' = NoClick

\* popup and options page: nothing stored, no handler under way
EmptyStore == [templates |-> <<>>, url |-> ""]
UiIdle ==
  /\ uiStore = EmptyStore
  /\ uiNow = 0
  /\ uiCalls = <<>>
  /\ uiLog = <<>>
  /\ uiIssued = <<>>

\* nothing stored, no call under way, nothing recorded
BgIdle ==
  /\ store = <<>> /\ url = ""
  /\ reloads = <<>> /\ click = NoClick
  /\ menuBuiltFrom = <<>>
  /\ NoStepHistory

MergeInit ==
  /\ InsIdle
  /\ LsnIdle
  /\ MenuIdle
  /\ BgIdle
  /\ UiIdle
  /\ mU \in SeqsUpTo(MergeRecs, MaxMergeLen)
  /\ mR \in SeqsUpTo(MergeRecs, MaxMergeLen)
  /\ mOut = <<>>
  /\ mPopupOut = <<>>
  /\ mDone = FALSE

MergeStep ==
  /\ ~mDone
  /\ mOut' = mergeTemplates(mU, mR)
  /\ mPopupOut' = popupMergeTemplates(mU, mR)
  /\ mDone' = TRUE
  /\ UNCHANGED <<mU, mR>>
  /\ UNCHANGED <<insVars, lsnVars, menuVars, bgVars, histVars, uiVars>>

MergeNext == MergeStep

SpecMerge == MergeInit /\ [][MergeNext]_vars

---------------------------------------------------------------------------
(* Claims about mergeTemplates *)

FirstOccurring(ts, i) == \A j \in 1..(i - 1) : ts[j].id # ts[i].id

\* C2: the merged list holds no two records with the same non-empty id, and
\* every record of the remote list with a non-empty, first-occurring id is in
\* the merged list at a position before every merged record whose id is not
\* in the remote list (those are the user's records).
C2_MergeUniqueRemoteFirst ==
  mDone =>
    /\ \A i, j \in 1..Len(mOut) :
         (i # j /\ mOut[i].id # "") => mOut[i].id # mOut[j].id
    /\ \A i \in 1..Len(mR) :
         (mR[i].id # "" /\ FirstOccurring(mR, i)) =>
           \E p \in 1..Len(mOut) :
             /\ mOut[p] = mR[i]
             /\ \A q \in 1..Len(mOut) :
                  (mOut[q].id \notin IdsOf(mR)) => p < q

\* a remote list with a repeated id, a user record shadowed by the remote
\* list and one that is not, merged
C2_Witness ==
  /\ mDone
  /\ \E i, j \in 1..Len(mR) : i < j /\ mR[i].id = mR[j].id /\ mR[i].id # ""
  /\ \E k \in 1..Len(mU) : mU[k].id \in IdsOf(mR) /\ mU[k].id # ""
  /\ \E q \in 1..Len(mOut) : mOut[q].id \notin IdsOf(mR)

\* C10: with no remote templates the merge returns the user list unchanged.
C10_MergeIdentityNoRemote ==
  (mDone /\ mR = <<>>) => mOut = mU

\* out is ts with some records left out, the others in their order
IsSubsequence(out, ts) ==
  \E f \in [1..Len(out) -> 1..Len(ts)] :
    /\ \A k \in 1..Len(out) : out[k] = ts[f[k]]
    /\ \A k, l \in 1..Len(out) : k < l => f[k] < f[l]

CountIdless(ts) == Cardinality({i \in 1..Len(ts) : ts[i].id = ""})

\* C11: with no user templates the merge is the remote list deduplicated by
\* id: the first record of every id is kept, no id is kept twice, and the kept
\* records are in the order of the remote list.
C11_MergeDedupsRemote ==
  (mDone /\ mU = <<>>) =>
    /\ \A i \in 1..Len(mR) :
         FirstOccurring(mR, i) => \E p \in 1..Len(mOut) : mOut[p] = mR[i]
    /\ \A p, q \in 1..Len(mOut) :
         (p # q /\ mOut[p].id # "") => mOut[p].id # mOut[q].id
    /\ IsSubsequence(mOut, mR)

\* C12: every record without an id, of the remote list and of the user list,
\* is in the merged list, each instance of it.
C12_IdlessRecordsKept ==
  mDone => CountIdless(mOut) = CountIdless(mR) + CountIdless(mU)

\* C21: the popup's merge and the background coordinator's merge return the
\* same sequence of records for every pair (user list, remote list), so the
\* list the popup shows equals the index the context menu is built from.
C21_PopupMergeAgrees ==
  mDone => mPopupOut = mOut

---------------------------------------------------------------------------
(* content.js: plain-text insertion *)

Min(a, b) == IF a < b THEN a ELSE b
Max(a, b) == IF a > b THEN a ELSE b
Clamp(n, len) == Max(0, Min(n, len))

\* String.prototype.substring(a, b): both ends clamped to [0, length], swapped
\* when a > b; the characters at 0-based positions lo .. hi-1
Substring(s, a, b) ==
  LET lo == Min(Clamp(a, Len(s)), Clamp(b, Len(s)))
      hi == Max(Clamp(a, Len(s)), Clamp(b, Len(s)))
  IN  SubSeq(s, lo + 1, hi)

\* substring(a): to the end of the string
SubstringFrom(s, a) == Substring(s, a, Len(s))

\* mutant: the tail is taken from start, so the selected text is not replaced
NewValue_KeepsSelection(value, start, end, text) ==
  Substring(value, 0, start) \o text \o SubstringFrom(value, start)

\* element.value.substring(0, start) + text + element.value.substring(end)
NewValue(value, start, end, text) ==
  Substring(value, 0, start) \o text \o SubstringFrom(value, end)

\* const newCursorPosition = start + text.length
NewCursorPosition(start, text) == start + Len(text)

\* element.value = v: the value is replaced and the caret moves to its end
SetValue(e, v) ==
  [value |-> v, selectionStart |-> Len(v), selectionEnd |-> Len(v)]

\* element.selectionEnd = n, then element.selectionStart = n (the chained
\* assignment assigns right to left); each setter clamps to the value's length
\* and keeps selectionStart <= selectionEnd
SetSelectionEnd(e, n) ==
  LET end == Clamp(n, Len(e.value))
  IN  [e EXCEPT !.selectionEnd = end,
                !.selectionStart = Min(e.selectionStart, end)]

SetSelectionStart(e, n) ==
  LET start == Clamp(n, Len(e.value))
  IN  [e EXCEPT !.selectionStart = start,
                !.selectionEnd = Max(e.selectionEnd, start)]

\* insertIntoTextInput(element, text): the element after the call
insertIntoTextInput(e, text) ==
  LET start == e.selectionStart
      end   == e.selectionEnd
      e1    == SetValue(e, NewValue(e.value, start, end, text))
      e2    == SetSelectionEnd(e1, NewCursorPosition(start, text))
  IN  SetSelectionStart(e2, NewCursorPosition(start, text))

---------------------------------------------------------------------------
(* Insertion harness: a focused text input in a drawn state, one insertion *)

MaxValueLen == 3

Chars == {"a", "b"}

HelloWorld == <<"h", "e", "l", "l", "o", " ", "w", "o", "r", "l", "d">>
HiWorld == <<"h", "i", " ", "w", "o", "r", "l", "d">>
Hi == <<"h", "i">>

InsValues == SeqsUpTo(Chars, MaxValueLen) \cup {HelloWorld}
InsTexts == {<<>>, <<"X">>, Hi}

InsInit ==
  /\ MergeIdle
  /\ LsnIdle
  /\ MenuIdle
  /\ BgIdle
  /\ UiIdle
  /\ PageIdle
  /\ inValue \in InsValues
  /\ inStart \in 0..Len(inValue)
  /\ inEnd \in inStart..Len(inValue)
  /\ inText \in InsTexts
  /\ el = [value |-> inValue, selectionStart |-> inStart, selectionEnd |-> inEnd]
  /\ elEvents = <<>>
  /\ insDone = FALSE

\* mutant: the event is dispatched before the value and the caret are set
ElementAtDispatch_BeforeUpdate(before, after) == before

\* dispatchInputEvent(element) is the last statement of insertIntoTextInput:
\* the element is then the one after the assignments
ElementAtDispatch(before, after) == after

\* element.dispatchEvent(new Event("input", ...)): the listeners run
\* synchronously and see the element as it is at the dispatch
dispatchInputEvent(events, element) == Append(events, element)

\* insertIntoTextInput with its call of dispatchInputEvent
InsertIntoTextInput ==
  /\ ~insDone
  /\ el' = insertIntoTextInput(el, inText)
  /\ elEvents' = dispatchInputEvent(elEvents, ElementAtDispatch(el, el'))
  /\ insDone' = TRUE
  /\ UNCHANGED <<inValue, inStart, inEnd, inText, pageVars>>
  /\ UNCHANGED <<mergeVars, lsnVars, menuVars, bgVars, histVars, uiVars>>

InsNext == InsertIntoTextInput

SpecInsert == InsInit /\ [][InsNext]_vars

\* C3: inserting text into a text input with value v and caret range
\* [start, end], start <= end, gives v[0:start] + text + v[end:] with the
\* caret collapsed at start + length(text); "hello world" with 0..5 selected
\* and text "hi" gives "hi world" with the caret at 2.
C3_PlainTextInsertion ==
  (insDone /\ inStart <= inEnd) =>
    /\ el.value = SubSeq(inValue, 1, inStart) \o inText
                    \o SubSeq(inValue, inEnd + 1, Len(inValue))
    /\ el.selectionStart = inStart + Len(inText)
    /\ el.selectionEnd = inStart + Len(inText)
    /\ (inValue = HelloWorld /\ inStart = 0 /\ inEnd = 5 /\ inText = Hi) =>
         (el.value = HiWorld /\ el.selectionStart = 2 /\ el.selectionEnd = 2)

\* the example of the claim, applied
C3_Witness ==
  /\ insDone
  /\ inValue = HelloWorld /\ inStart = 0 /\ inEnd = 5 /\ inText = Hi
  /\ el.value = HiWorld

\* C19: an insertion into a text input dispatches exactly one input event, and
\* its listeners see the element with the value and the caret the insertion
\* leaves.
C19_OneInputEventAfterUpdate ==
  (insDone /\ inStart <= inEnd) =>
    /\ Len(elEvents) = 1
    /\ elEvents[1] = el
    /\ elEvents[1].value = SubSeq(inValue, 1, inStart) \o inText
                             \o SubSeq(inValue, inEnd + 1, Len(inValue))
    /\ elEvents[1].selectionStart = inStart + Len(inText)
    /\ elEvents[1].selectionEnd = inStart + Len(inText)

\* a selection replaced by a text: the one event's listeners saw the new value
C19_Witness ==
  /\ insDone
  /\ inStart < inEnd /\ inText # <<>>
  /\ Len(elEvents) = 1
  /\ elEvents[1].value # inValue
  /\ elEvents[1].selectionStart # inStart

\* a surface that hands out selectionStart > selectionEnd. No text field of a
\* browser does (the DOM keeps selectionStart <= selectionEnd); the function
\* takes whatever object it is given
ReversedInit ==
  /\ MergeIdle
  /\ LsnIdle
  /\ MenuIdle
  /\ BgIdle
  /\ UiIdle
  /\ PageIdle
  /\ inValue \in InsValues
  /\ inEnd \in 0..Len(inValue)
  /\ inStart \in (inEnd + 1)..Len(inValue)
  /\ inText \in InsTexts
  /\ el = [value |-> inValue, selectionStart |-> inStart, selectionEnd |-> inEnd]
  /\ elEvents = <<>>
  /\ insDone = FALSE

SpecInsertReversed == ReversedInit /\ [][InsNext]_vars

---------------------------------------------------------------------------
(* content.js: the insertTemplate message listener *)

DUPLICATE_WINDOW_MS == 500

\* msg.text || ''
TextOf(msgText) == IF msgText = <<"undefined">> THEN <<>> ELSE msgText

\* mutant: a message exactly 500 ms after the last one is a duplicate too
IsDuplicate_Inclusive(last, text, now) ==
  /\ last.hasText /\ last.text = text
  /\ now - last.time <= DUPLICATE_WINDOW_MS

\* last.text === text && (now - last.time) < 500
IsDuplicate(last, text, now) ==
  /\ last.hasText /\ last.text = text
  /\ now - last.time < DUPLICATE_WINDOW_MS

\* mutant: an ignored duplicate refreshes the stored timestamp
LastAfterDuplicate_Refreshes(last, text, now) ==
  [hasText |-> TRUE, text |-> text, time |-> now]

\* the early return of the duplicate branch leaves the stored pair alone
LastAfterDuplicate(last, text, now) == last

\* window.__last_template_insert = { text, time: now }
LastAfterInsert(text, now) == [hasText |-> TRUE, text |-> text, time |-> now]

MaxDeliveries == 3
MaxClock == 1100

TickSteps == {100, 499, 500}
MsgTexts == {<<"undefined">>, <<"X">>, Hi}

LsnInit ==
  /\ MergeIdle
  /\ InsIdle
  /\ LsnIdle
  /\ MenuIdle
  /\ BgIdle
  /\ UiIdle

\* content.js is run in the page (chrome.scripting.executeScript): the listener
\* and the guard's state are set up on the first run only
RunContentScript ==
  /\ IF installed
     THEN UNCHANGED <<installed, lastInsert>>
     ELSE installed' = TRUE /\ lastInsert' = NoLastInsert
  /\ UNCHANGED <<clock, deliveries>>
  /\ UNCHANGED <<mergeVars, insVars, menuVars, bgVars, histVars, uiVars>>

\* time passes
Tick(d) ==
  /\ clock + d <= MaxClock
  /\ clock' = clock + d
  /\ UNCHANGED <<installed, lastInsert, deliveries>>
  /\ UNCHANGED <<mergeVars, insVars, menuVars, bgVars, histVars, uiVars>>

\* the onMessage listener, for a message {action: "insertTemplate", text}
OnInsertMessage(msgText) ==
  /\ installed
  /\ Len(deliveries) < MaxDeliveries
  /\ LET now  == clock
         text == TextOf(msgText)
     IN  IF IsDuplicate(lastInsert, text, now)
         THEN /\ lastInsert' = LastAfterDuplicate(lastInsert, text, now)
              /\ deliveries' = Append(deliveries,
                    [text |-> text, time |-> now, inserted |-> FALSE])
         ELSE /\ lastInsert' = LastAfterInsert(text, now)
              /\ deliveries' = Append(deliveries,
                    [text |-> text, time |-> now, inserted |-> TRUE])
  /\ UNCHANGED <<installed, clock>>
  /\ UNCHANGED <<mergeVars, insVars, menuVars, bgVars, histVars, uiVars>>

LsnNext ==
  \/ RunContentScript
  \/ \E d \in TickSteps : Tick(d)
  \/ \E t \in MsgTexts : OnInsertMessage(t)

SpecListener == LsnInit /\ [][LsnNext]_vars

\* C4: an insertTemplate message whose text is that of the message delivered
\* just before it, itself inserted less than 500 ms earlier, is not inserted
\* (two deliveries, one insertion); a message delivered 600 ms or more after
\* every earlier insertion of the same text is inserted.
C4_DuplicateSuppression ==
  \A k \in 1..Len(deliveries) :
    /\ (/\ k > 1
        /\ deliveries[k - 1].inserted
        /\ deliveries[k - 1].text = deliveries[k].text
        /\ deliveries[k].time - deliveries[k - 1].time < 500)
         => ~deliveries[k].inserted
    /\ (\A j \in 1..(k - 1) :
          (deliveries[j].inserted /\ deliveries[j].text = deliveries[k].text)
            => deliveries[k].time - deliveries[j].time >= 600)
         => deliveries[k].inserted

\* the same text three times: inserted, ignored within 500 ms, inserted again
\* 600 ms or more after the first
C4_Witness ==
  /\ Len(deliveries) = 3
  /\ deliveries[1].text = deliveries[2].text
  /\ deliveries[2].text = deliveries[3].text
  /\ deliveries[2].time - deliveries[1].time < 500
  /\ deliveries[2].time > deliveries[1].time
  /\ deliveries[3].time - deliveries[1].time >= 600
  /\ deliveries[1].inserted /\ ~deliveries[2].inserted /\ deliveries[3].inserted

\* the deliveries before the k-th that were processed (not suppressed)
ProcessedBefore(k) == {j \in 1..(k - 1) : deliveries[j].inserted}

\* the most recently processed delivery before the k-th
LastProcessedBefore(k) ==
  CHOOSE j \in ProcessedBefore(k) : \A i \in ProcessedBefore(k) : i <= j

\* C20: a message is suppressed exactly when a message was processed before
\* it and the most recently processed one has the same text and is less than
\* 500 ms old; the stored pair is always that of the most recently processed
\* message (a suppressed one does not touch it), so the same text is inserted
\* again once 500 ms have passed since its last insertion, and at once after a
\* different text was processed.
C20_GuardAnchoredOnLastProcessed ==
  /\ \A k \in 1..Len(deliveries) :
       ~deliveries[k].inserted <=>
         /\ ProcessedBefore(k) # {}
         /\ deliveries[LastProcessedBefore(k)].text = deliveries[k].text
         /\ deliveries[k].time - deliveries[LastProcessedBefore(k)].time < 500
  /\ LET n == Len(deliveries) + 1 IN
     IF ProcessedBefore(n) = {}
     THEN lastInsert = NoLastInsert
     ELSE /\ lastInsert.hasText
          /\ lastInsert.text = deliveries[LastProcessedBefore(n)].text
          /\ lastInsert.time = deliveries[LastProcessedBefore(n)].time

\* a stream of one text: inserted, suppressed 499 ms later, and inserted again
\* 100 ms after the suppressed one, 599 ms after the insertion
C20_Witness ==
  /\ Len(deliveries) = 3
  /\ deliveries[1].text = deliveries[2].text
  /\ deliveries[2].text = deliveries[3].text
  /\ deliveries[1].inserted /\ ~deliveries[2].inserted /\ deliveries[3].inserted
  /\ deliveries[2].time - deliveries[1].time = 499
  /\ deliveries[3].time - deliveries[2].time = 100

---------------------------------------------------------------------------
(* Background coordinator: menu item identifiers *)

MENU_ROOT_ID == <<"t", "e", "m", "p", "l", "a", "t", "e", "s", "_", "r", "o", "o", "t">>
MENU_ITEM_PREFIX == <<"t", "p", "l", "_">>

Digits == <<"0", "1", "2", "3", "4", "5", "6", "7", "8", "9">>
DigitSet == Range(Digits)
DigitValue(c) == (CHOOSE d \in 1..10 : Digits[d] = c) - 1

\* `${index}`: the decimal numeral of a non-negative integer
RECURSIVE ToDecimal(_)
ToDecimal(n) ==
  IF n < 10 THEN <<Digits[n + 1]>>
  ELSE ToDecimal(n \div 10) \o <<Digits[(n % 10) + 1]>>

\* `${MENU_ITEM_PREFIX}${index}`
ItemId(index) == MENU_ITEM_PREFIX \o ToDecimal(index)

\* String.prototype.startsWith
StartsWith(s, prefix) ==
  Len(s) >= Len(prefix) /\ SubSeq(s, 1, Len(prefix)) = prefix

\* String.prototype.split(sep) for a one-character separator
RECURSIVE SplitLoop(_, _, _, _)
SplitLoop(s, sep, cur, acc) ==
  IF s = <<>> THEN Append(acc, cur)
  ELSE IF Head(s) = sep
       THEN SplitLoop(Tail(s), sep, <<>>, Append(acc, cur))
       ELSE SplitLoop(Tail(s), sep, Append(cur, Head(s)), acc)

Split(s, sep) == SplitLoop(s, sep, <<>>, <<>>)

\* the value parseInt gives when the string starts with no digit
NaN == -1

\* parseInt(s): the number its leading decimal digits spell
RECURSIVE ParseDigits(_, _)
ParseDigits(s, acc) ==
  IF s = <<>> \/ Head(s) \notin DigitSet THEN acc
  ELSE ParseDigits(Tail(s), 10 * acc + DigitValue(Head(s)))

parseInt(s) ==
  IF s = <<>> \/ Head(s) \notin DigitSet THEN NaN ELSE ParseDigits(s, 0)

\* parseInt(menuInfo.menuItemId.split("_")[1])
IndexOfItemId(menuItemId) ==
  LET parts == Split(menuItemId, "_")
  IN  IF Len(parts) >= 2 THEN parseInt(parts[2]) ELSE NaN

---------------------------------------------------------------------------
(* Background coordinator: buildMenu *)

RootEntry ==
  [id |-> MENU_ROOT_ID, parentId |-> <<>>, title |-> <<"Insert Template">>]

\* defaultTemplateIds.includes(template.id) ? `${name} (default)` : name
Label(template, defaultIds) ==
  IF template.id \in Range(defaultIds)
  THEN <<template.name, " (default)">>
  ELSE <<template.name>>

\* !template.name || !template.content
IsInvalid(template) == ~Truthy(template.name) \/ ~Truthy(template.content)

\* templates.forEach((template, index) => ...), from 0-based position index on
RECURSIVE BuildChildren(_, _, _, _)
BuildChildren(templates, index, defaultIds, entries) ==
  IF index >= Len(templates) THEN entries
  ELSE LET template == templates[index + 1] IN
       IF IsInvalid(template)
       THEN BuildChildren(templates, index + 1, defaultIds, entries)
       ELSE BuildChildren(templates, index + 1, defaultIds,
              Append(entries, [id |-> ItemId(index),
                               parentId |-> MENU_ROOT_ID,
                               title |-> Label(template, defaultIds)]))

\* mutant: the children are numbered by their position among the valid ones
RECURSIVE BuildChildren_Renumbered(_, _, _, _)
BuildChildren_Renumbered(templates, index, defaultIds, entries) ==
  IF index >= Len(templates) THEN entries
  ELSE LET template == templates[index + 1] IN
       IF IsInvalid(template)
       THEN BuildChildren_Renumbered(templates, index + 1, defaultIds, entries)
       ELSE BuildChildren_Renumbered(templates, index + 1, defaultIds,
              Append(entries, [id |-> ItemId(Len(entries) - 1),
                               parentId |-> MENU_ROOT_ID,
                               title |-> Label(template, defaultIds)]))

buildMenu_Renumbered(templates, defaultIds) ==
  BuildChildren_Renumbered(templates, 0, defaultIds, <<RootEntry>>)

\* buildMenu(templates): removeAll, the root, then one child per valid record;
\* the menu afterwards
buildMenu(templates, defaultIds) ==
  BuildChildren(templates, 0, defaultIds, <<RootEntry>>)

Children(m) == {k \in 1..Len(m) : m[k].parentId = MENU_ROOT_ID}

---------------------------------------------------------------------------
(* buildMenu harness: an index drawn from a bounded set, one rebuild *)

MaxIndexLen == 4

IdNames == <<"a", "b", "c", "d", "e", "f">>

Shapes == [name : {"", "N"}, content : {"", "c"}]

\* an index as the merge leaves it: every id non-empty and distinct
IndexOfShapes(sh) ==
  [i \in 1..Len(sh) |->
     [id |-> IdNames[i], name |-> sh[i].name, content |-> sh[i].content]]

BuildInit ==
  /\ MergeIdle
  /\ InsIdle
  /\ LsnIdle
  /\ BgIdle
  /\ UiIdle
  /\ \E sh \in SeqsUpTo(Shapes, MaxIndexLen) : cachedTemplates = IndexOfShapes(sh)
  /\ defaultTemplateIds \in {<<>>, <<"a">>}
  /\ menu = <<>>

BuildMenuStep ==
  /\ menu = <<>>
  /\ menu' = buildMenu(cachedTemplates, defaultTemplateIds)
  /\ UNCHANGED <<cachedTemplates, defaultTemplateIds>>
  /\ UNCHANGED <<mergeVars, insVars, lsnVars, bgVars, histVars, uiVars>>

BuildNext == BuildMenuStep

SpecBuild == BuildInit /\ [][BuildNext]_vars

ValidPositions(ts) ==
  {i \in 0..(Len(ts) - 1) : ts[i + 1].name # "" /\ ts[i + 1].content # ""}

\* C9: a rebuild creates, for every 0-based position i of the index whose
\* record has a non-empty name and a non-empty content, exactly one child,
\* whose identifier is the prefix followed by i and parses back to i; it
\* creates no other child (so as many children as valid records: 3 for an
\* index of 3 valid records and 1 without content), whatever the position of
\* the skipped records.
C9_MenuChildrenFollowIndex ==
  menu # <<>> =>
    /\ \A i \in ValidPositions(cachedTemplates) :
         Cardinality({k \in Children(menu) :
            /\ StartsWith(menu[k].id, MENU_ITEM_PREFIX)
            /\ IndexOfItemId(menu[k].id) = i
            /\ menu[k].title[1] = cachedTemplates[i + 1].name}) = 1
    /\ \A k \in Children(menu) :
         IndexOfItemId(menu[k].id) \in ValidPositions(cachedTemplates)
    /\ Cardinality(Children(menu)) = Cardinality(ValidPositions(cachedTemplates))
    /\ (/\ Len(cachedTemplates) = 4
        /\ Cardinality(ValidPositions(cachedTemplates)) = 3)
         => Cardinality(Children(menu)) = 3

\* four records, the second without content, rebuilt: three children, the
\* last of them for position 3
C9_Witness ==
  /\ menu # <<>>
  /\ Len(cachedTemplates) = 4
  /\ ValidPositions(cachedTemplates) = {0, 2, 3}
  /\ cachedTemplates[2].content = "" /\ cachedTemplates[2].name # ""
  /\ Cardinality(Children(menu)) = 3
  /\ \E k \in Children(menu) : IndexOfItemId(menu[k].id) = 3

---------------------------------------------------------------------------
(* content.js: insertTemplate on the focused element of a page *)

\* an element as insertTemplate reads it. type "" is an element that is no
\* form control; selectionStart and selectionEnd are Null on an input whose
\* type has no text selection (checkbox, radio, number, date, ...)
Element(tagName, type, editable, readOnly, value, start, end) ==
  [tagName |-> tagName, type |-> type, isContentEditable |-> editable,
   readOnly |-> readOnly, value |-> value,
   selectionStart |-> start, selectionEnd |-> end]

\* the input types whose selectionStart is a number
SelectionApplies(e) == e.type \in {"textarea", "text"}

TextNode(data) == [nodeType |-> "text", data |-> data]
Br == [nodeType |-> "br", data |-> <<>>]

\* mutant: a line break is appended after every line, the last one too
RECURSIVE FragmentLoop_TrailingBreak(_, _, _)
FragmentLoop_TrailingBreak(lines, index, fragment) ==
  IF index >= Len(lines) THEN fragment
  ELSE FragmentLoop_TrailingBreak(lines, index + 1,
         Append(Append(fragment, TextNode(lines[index + 1])), Br))

createDocumentFragment_TrailingBreak(text) ==
  FragmentLoop_TrailingBreak(Split(text, "\n"), 0, <<>>)

\* lines.forEach((line, index) => ...): a text node for the line, and a br
\* when index < lines.length - 1
RECURSIVE FragmentLoop(_, _, _)
FragmentLoop(lines, index, fragment) ==
  IF index >= Len(lines) THEN fragment
  ELSE LET withText == Append(fragment, TextNode(lines[index + 1]))
       IN  FragmentLoop(lines, index + 1,
             IF index < Len(lines) - 1 THEN Append(withText, Br) ELSE withText)

\* createDocumentFragment(text): the children of the fragment
createDocumentFragment(text) == FragmentLoop(Split(text, "\n"), 0, <<>>)

\* mutant: the selection is never taken to be without a range
HasNoRange_Never(selection) == FALSE

\* !selection.rangeCount
HasNoRange(selection) == selection.rangeCount = 0

\* insertIntoContentEditable(text). The range's boundary points are offsets
\* among the children of the editable region: deleteContents removes the
\* children in the range and collapses it, insertNode puts the fragment's
\* children at its start and extends its end past them, collapse(false) moves
\* the start to the end, and the selection is set to that range
insertIntoContentEditable(p, text) ==
  IF HasNoRange(p.selection) THEN p
  ELSE LET start    == p.selection.start
           end      == p.selection.end
           deleted  == SubSeq(p.nodes, 1, start) \o SubSeq(p.nodes, end + 1, Len(p.nodes))
           fragment == createDocumentFragment(text)
           inserted == SubSeq(deleted, 1, start) \o fragment
                         \o SubSeq(deleted, start + 1, Len(deleted))
           rangeEnd == start + Len(fragment)
       IN  [p EXCEPT !.nodes = inserted,
                     !.selection = [rangeCount |-> 1, start |-> rangeEnd, end |-> rangeEnd]]

\* element.tagName === "TEXTAREA" || element.tagName === "INPUT"
isTextInput(element) == element.tagName = "TEXTAREA" \/ element.tagName = "INPUT"

\* the value an input keeps when element.value is assigned: type=number keeps
\* only a valid number (here: a string of digits) and becomes empty otherwise
SanitizedValue(type, v) ==
  IF type = "number" /\ (v = <<>> \/ \E i \in 1..Len(v) : v[i] \notin DigitSet)
  THEN <<>>
  ELSE v

\* insertIntoTextInput(element, text) on the focused element. Where the type
\* has a text selection, value and caret are set and the input event is
\* dispatched. Where it has none, start and end are null (substring reads them
\* as 0), the value is assigned, and the assignment to selectionStart /
\* selectionEnd throws InvalidStateError: dispatchInputEvent is not reached
insertIntoFocusedInput(p, text) ==
  LET e == p.active IN
  IF SelectionApplies(e)
  THEN LET r == insertIntoTextInput(
                  [value |-> e.value, selectionStart |-> e.selectionStart,
                   selectionEnd |-> e.selectionEnd], text)
           after == [e EXCEPT !.value = r.value,
                              !.selectionStart = r.selectionStart,
                              !.selectionEnd = r.selectionEnd]
       IN  [p EXCEPT !.active = after, !.events = Append(p.events, after)]
  ELSE [p EXCEPT !.active.value =
          SanitizedValue(e.type, NewValue(e.value, e.selectionStart, e.selectionEnd, text))]

\* insertTemplate(text): the page after the call
insertTemplate(p, text) ==
  IF p.active = NoElement THEN p
  ELSE IF isTextInput(p.active) THEN insertIntoFocusedInput(p, text)
  ELSE IF p.active.isContentEditable THEN insertIntoContentEditable(p, text)
  ELSE p

---------------------------------------------------------------------------
(* Page harness: a page in a drawn state, one insertTemplate call *)

MaxTextLen == 3

Ab == <<"a", "b">>
Line1 == <<"l", "i", "n", "e", "1">>
Line2 == <<"l", "i", "n", "e", "2">>
Line1Line2 == Line1 \o <<"\n">> \o Line2

PageTexts == SeqsUpTo({"a", "\n"}, MaxTextLen) \cup {Line1Line2}

\* what can have the focus: nothing, the body, an editable region, a textarea
\* or text input in any caret state, a read-only text input, a checkbox, a
\* number input
TextAreas ==
  {Element("TEXTAREA", "textarea", FALSE, FALSE, Ab, r[1], r[2]) :
     r \in {r \in (0..2) \X (0..2) : r[1] <= r[2]}}

PageElements ==
  {NoElement,
   Element("BODY", "", FALSE, FALSE, <<>>, Null, Null),
   Element("DIV", "", TRUE, FALSE, <<>>, Null, Null),
   Element("INPUT", "text", FALSE, TRUE, Ab, 1, 1),
   Element("INPUT", "checkbox", FALSE, FALSE, <<"o", "n">>, Null, Null),
   Element("INPUT", "number", FALSE, FALSE, <<"4", "2">>, Null, Null)}
    \cup TextAreas

\* the children of the editable region
PageNodes == {<<>>, <<TextNode(<<"x">>)>>, <<TextNode(<<"x">>), Br, TextNode(<<"y">>)>>}

\* no range, or one range between two boundary points of the region
PageSelections(nodes) ==
  {NoSelection}
    \cup {[rangeCount |-> 1, start |-> r[1], end |-> r[2]] :
            r \in {r \in (0..Len(nodes)) \X (0..Len(nodes)) : r[1] <= r[2]}}

PageStates ==
  UNION {{[active |-> a, nodes |-> n, selection |-> sel, events |-> <<>>] :
            a \in PageElements, sel \in PageSelections(n)} : n \in PageNodes}

PageInit ==
  /\ MergeIdle
  /\ TextInputIdle
  /\ LsnIdle
  /\ MenuIdle
  /\ BgIdle
  /\ UiIdle
  /\ page0 \in PageStates
  /\ page = page0
  /\ pgText \in PageTexts
  /\ pgDone = FALSE

InsertTemplate ==
  /\ ~pgDone
  /\ page' = insertTemplate(page, pgText)
  /\ pgDone' = TRUE
  /\ UNCHANGED <<page0, pgText>>
  /\ UNCHANGED <<inValue, inStart, inEnd, inText, el, elEvents, insDone>>
  /\ UNCHANGED <<mergeVars, lsnVars, menuVars, bgVars, histVars, uiVars>>

PageNext == InsertTemplate

SpecPage == PageInit /\ [][PageNext]_vars

---------------------------------------------------------------------------
(* Claims about insertTemplate *)

CountOf(s, c) == Cardinality({i \in 1..Len(s) : s[i] = c})

\* the text a run of text and br nodes spells, a br read as a newline
RECURSIVE TextOfNodes(_)
TextOfNodes(nodes) ==
  IF nodes = <<>> THEN <<>>
  ELSE (IF Head(nodes).nodeType = "br" THEN <<"\n">> ELSE Head(nodes).data)
         \o TextOfNodes(Tail(nodes))

\* the request reaches insertIntoContentEditable and finds a range
RichTextCase(p) ==
  /\ p.active # NoElement
  /\ ~isTextInput(p.active)
  /\ p.active.isContentEditable
  /\ p.selection.rangeCount = 1

\* C13: a rich-text insertion of a text of n lines replaces the selected
\* children by n text nodes, none holding a newline, with exactly one br
\* between each two adjacent ones and none before the first or after the last
\* (2n - 1 nodes that spell the text), leaves the children around the range
\* alone, and ends with the selection collapsed after the last inserted node;
\* "line1\nline2" gives the text "line1", one br, the text "line2".
C13_RichTextFragment ==
  (pgDone /\ RichTextCase(page0)) =>
    LET s   == page0.selection.start
        e   == page0.selection.end
        n   == CountOf(pgText, "\n") + 1
        ins == SubSeq(page.nodes, s + 1, s + 2 * n - 1)
    IN  /\ Len(page.nodes) = Len(page0.nodes) - (e - s) + 2 * n - 1
        /\ SubSeq(page.nodes, 1, s) = SubSeq(page0.nodes, 1, s)
        /\ SubSeq(page.nodes, s + 2 * n, Len(page.nodes))
             = SubSeq(page0.nodes, e + 1, Len(page0.nodes))
        /\ \A k \in 1..Len(ins) :
             IF k % 2 = 1
             THEN ins[k].nodeType = "text" /\ "\n" \notin Range(ins[k].data)
             ELSE ins[k] = Br
        /\ TextOfNodes(ins) = pgText
        /\ page.selection = [rangeCount |-> 1, start |-> s + 2 * n - 1,
                             end |-> s + 2 * n - 1]
        /\ (pgText = Line1Line2) => ins = <<TextNode(Line1), Br, TextNode(Line2)>>

\* "line1\nline2" inserted over a selected child of an editable region
C13_Witness ==
  /\ pgDone
  /\ RichTextCase(page0)
  /\ pgText = Line1Line2
  /\ page0.selection.start < page0.selection.end
  /\ Len(page.nodes) = Len(page0.nodes) - (page0.selection.end - page0.selection.start) + 3

\* C14: an insert request with nothing focused (no active element, or the
\* body), or with an editable region focused and no selection range, leaves
\* the page as it was: every element's content and caret, the selection, and
\* no input event.
C14_MissingTargetNoOp ==
  (/\ pgDone
   /\ \/ page0.active = NoElement
      \/ page0.active.tagName = "BODY"
      \/ (/\ ~isTextInput(page0.active)
          /\ page0.active.isContentEditable
          /\ page0.selection.rangeCount = 0))
    => page = page0

\* a text of two lines requested with a non-empty editable region focused and
\* no selection range
C14_Witness ==
  /\ pgDone
  /\ page0.active.isContentEditable
  /\ page0.selection.rangeCount = 0
  /\ page0.nodes # <<>>
  /\ "\n" \in Range(pgText)
  /\ page.nodes = page0.nodes

\* C15: with the focus on an element that is neither a text surface with
\* numeric caret offsets nor an editable region (a read-only field, a
\* checkbox, a number input, the body), the insert request changes nothing on
\* that element.
C15_UnsupportedTargetUntouched ==
  (/\ pgDone
   /\ page0.active # NoElement
   /\ ~page0.active.isContentEditable
   /\ (page0.active.readOnly \/ ~SelectionApplies(page0.active)))
    => page.active = page0.active

---------------------------------------------------------------------------
(* Background coordinator: loadDefaultTemplates *)

\* what fetch(url) can end with: a rejection (network failure), or a response
\* with a status (ok or not) and a body that parses as JSON or does not
NotJson == [isJson |-> FALSE, value |-> NonArray]
JsonBody(v) == [isJson |-> TRUE, value |-> v]

NetworkError == [kind |-> "networkError", ok |-> FALSE, body |-> NotJson]
Response(ok, body) == [kind |-> "response", ok |-> ok, body |-> body]

\* try { response = await fetch(url); resolve(await response.json()) }
\* catch { resolve([]) }: the value the promise resolves to
loadDefaultValue(resp) ==
  IF resp.kind = "networkError" THEN Arr(<<>>)       \* fetch rejects
  ELSE IF ~resp.body.isJson THEN Arr(<<>>)           \* response.json() rejects
  ELSE resp.body.value

---------------------------------------------------------------------------
(* Background coordinator: the service worker's handlers *)

\* loadTemplates calls under way at once: in the full system, and in the
\* system the click properties are checked in
MaxReloads == 2
MaxClickReloads == 1

A == [id |-> "a", name |-> "A", content |-> "ca"]
B == [id |-> "b", name |-> "B", content |-> "cb"]
RA == [id |-> "r", name |-> "R", content |-> "cr"]
RBad == [id |-> "q", name |-> "Q", content |-> ""]

\* what the popup stores: records with an id, a name and a content
UserLists == {<<>>, <<A>>, <<A, B>>}
Urls == {"", "u"}
RemoteArrays == {<<RBad, RA>>}

Responses ==
  {NetworkError}
    \cup {Response(FALSE, b) : b \in {NotJson, JsonBody(NonArray)}}
    \cup {Response(TRUE, b) :
            b \in {NotJson, JsonBody(NonArray)} \cup {JsonBody(Arr(r)) : r \in RemoteArrays}}

NewReload ==
  [pc |-> "storageGet", custom |-> <<>>, overtaken |-> FALSE, newer |-> NoNewer]

Stage(pc) == CASE pc = "storageGet" -> 1 [] pc = "urlGet" -> 2 [] OTHER -> 3

\* chrome.storage answers the reads of one context in the order they were made
StorageTurn(k) ==
  \A j \in 1..(k - 1) : Stage(reloads[j].pc) > Stage(reloads[k].pc)

RemoveAt(q, k) == SubSeq(q, 1, k - 1) \o SubSeq(q, k + 1, Len(q))

\* defaultTemplates.map(t => t.id)
MapIds(items) == [i \in 1..Len(items) |-> items[i].id]

\* the service worker starts: fresh install, nothing stored, no menu
BgInit ==
  /\ MergeIdle
  /\ InsIdle
  /\ LsnIdle
  /\ MenuIdle
  /\ BgIdle
  /\ UiIdle

\* loadTemplates(): onInstalled, onStartup or a reloadMenus message; the call
\* only issues chrome.storage.sync.get
LoadTemplatesCall(max) ==
  /\ Len(reloads) < max
  /\ reloads' = Append(reloads, NewReload)
  /\ UNCHANGED <<store, url, click>>
  /\ ClearStepHistory
  /\ UNCHANGED <<menuVars, menuBuiltFrom, mergeVars, insVars, lsnVars, uiVars>>

\* popup, saveTemplates(templates): the store is written and the reloadMenus
\* message makes the coordinator call loadTemplates
SaveTemplates(templates, max) ==
  /\ Len(reloads) < max
  /\ templates # store
  /\ store' = templates
  /\ reloads' = Append(reloads, NewReload)
  /\ UNCHANGED <<url, click>>
  /\ ClearStepHistory
  /\ UNCHANGED <<menuVars, menuBuiltFrom, mergeVars, insVars, lsnVars, uiVars>>

\* options page, Save: the URL is written and reloadMenus is sent
SaveUrl(u, max) ==
  /\ Len(reloads) < max
  /\ u # url
  /\ url' = u
  /\ reloads' = Append(reloads, NewReload)
  /\ UNCHANGED <<store, click>>
  /\ ClearStepHistory
  /\ UNCHANGED <<menuVars, menuBuiltFrom, mergeVars, insVars, lsnVars, uiVars>>

\* loadTemplates, the callback of chrome.storage.sync.get([STORAGE_KEY]):
\* customTemplates is read and loadDefaultTemplates() reads the URL
ReloadStorageRead(k) ==
  /\ k \in 1..Len(reloads)
  /\ reloads[k].pc = "storageGet"
  /\ StorageTurn(k)
  /\ reloads' = [reloads EXCEPT ![k] = [@ EXCEPT !.pc = "urlGet", !.custom = store]]
  /\ UNCHANGED <<store, url, click>>
  /\ ClearStepHistory
  /\ UNCHANGED <<menuVars, menuBuiltFrom, mergeVars, insVars, lsnVars, uiVars>>

\* history: reload `later`, issued after `earlier`, ends first with `value`;
\* `earlier` keeps what the latest-issued of those that overtook it computed
OvertakenBy(earlier, later, value) ==
  IF later.overtaken
  THEN [earlier EXCEPT !.overtaken = TRUE]
  ELSE [earlier EXCEPT
          !.overtaken = TRUE,
          !.newer = IF value.isArray
                    THEN [applied |-> TRUE,
                          index |-> mergeTemplates(later.custom, value.items)]
                    ELSE NoNewer]

\* the rest of loadTemplates once loadDefaultTemplates() has resolved to value:
\* defaultTemplates.map throws when the value is no array, and nothing after it
\* runs; otherwise ids, merge, cache and menu are all set in one go
EndReload(k, value) ==
  LET r == reloads[k] IN
  /\ IF value.isArray
     THEN LET allTemplates == mergeTemplates(r.custom, value.items) IN
          /\ defaultTemplateIds' = MapIds(value.items)
          /\ cachedTemplates' = allTemplates
          /\ menu' = buildMenu(allTemplates, defaultTemplateIds')
          /\ menuBuiltFrom' = allTemplates
     ELSE UNCHANGED <<defaultTemplateIds, cachedTemplates, menu, menuBuiltFrom>>
  /\ reloads' = RemoveAt([j \in 1..Len(reloads) |->
                            IF j < k THEN OvertakenBy(reloads[j], r, value)
                            ELSE reloads[j]], k)
  /\ lastReload' = [done |-> TRUE, custom |-> r.custom, value |-> value,
                    applied |-> value.isArray,
                    overtaken |-> r.overtaken, newer |-> r.newer]

\* loadDefaultTemplates, the callback of chrome.storage.sync.get(url): with no
\* URL it resolves to [] at once and loadTemplates goes on; else fetch starts
ReloadUrlRead(k) ==
  /\ k \in 1..Len(reloads)
  /\ reloads[k].pc = "urlGet"
  /\ StorageTurn(k)
  /\ IF url = ""
     THEN EndReload(k, Arr(<<>>))
     ELSE /\ reloads' = [reloads EXCEPT ![k] = [@ EXCEPT !.pc = "fetch"]]
          /\ lastReload' = NoReload
          /\ UNCHANGED <<menuVars, menuBuiltFrom>>
  /\ lastFetch' = NoFetch /\ lastClick' = NoClick
  /\ UNCHANGED <<store, url, click>>
  /\ UNCHANGED <<mergeVars, insVars, lsnVars, uiVars>>

\* the fetch of a reload ends with resp; fetches end in any order
ReloadFetchDone(k, resp) ==
  /\ k \in 1..Len(reloads)
  /\ reloads[k].pc = "fetch"
  /\ lastFetch' = [done |-> TRUE, resp |-> resp, value |-> loadDefaultValue(resp)]
  /\ EndReload(k, loadDefaultValue(resp))
  /\ lastClick' = NoClick
  /\ UNCHANGED <<store, url, click>>
  /\ UNCHANGED <<mergeVars, insVars, lsnVars, uiVars>>

\* the idle service worker is stopped and started again by the next event: the
\* script's top level runs anew (cachedTemplates = [], defaultTemplateIds = []),
\* while the context menu and the store are the browser's and stay
WorkerRestart ==
  /\ reloads = <<>> /\ click.pc = "idle"
  /\ cachedTemplates # <<>> \/ defaultTemplateIds # <<>>
  /\ cachedTemplates' = <<>>
  /\ defaultTemplateIds' = <<>>
  /\ ClearStepHistory
  /\ UNCHANGED <<menu, menuBuiltFrom>>
  /\ UNCHANGED <<bgVars, mergeVars, insVars, lsnVars, uiVars>>

---------------------------------------------------------------------------
(* Background coordinator: handleContextMenuClick and getTemplateByIndex *)

\* mutant: the lookup is off by one (the record before the one asked for)
TemplateAt_OffByOne(templates, index) ==
  IF index \in 1..Len(templates) THEN <<templates[index]>> ELSE <<>>

\* templates[index]: the record as a one-element sequence, or <<>> for
\* undefined (index out of range, or NaN)
TemplateAt(templates, index) ==
  IF index \in 0..(Len(templates) - 1) THEN <<templates[index + 1]>> ELSE <<>>

\* history: the call ended with outcome "sent" (text was sent), "none" (it
\* returned without sending) or "hung" (its promise never resolves)
EndedClick(c, outcome, text) ==
  [pc |-> "ended", outcome |-> outcome, index |-> c.index, text |-> text,
   template |-> c.template, shown |-> c.shown, inRange |-> c.inRange]

\* history: the step re-read the store and found the record to send
ResolvedClick == [pc |-> "resolved"]

\* chrome.contextMenus.onClicked for an entry of the menu: ids without the
\* prefix are ignored; a record found in the cache is used at once (the handler
\* then awaits injectContentScript); otherwise the store is read again
OnClicked(menuItemId) ==
  /\ click.pc = "idle"
  /\ menuItemId \in {menu[k].id : k \in 1..Len(menu)}
  /\ IF ~StartsWith(menuItemId, MENU_ITEM_PREFIX)
     THEN UNCHANGED click
     ELSE LET index == IndexOfItemId(menuItemId)
              found == TemplateAt(cachedTemplates, index)
          IN  click' = [pc       |-> IF found # <<>> THEN "inject" ELSE "storageGet",
                        index    |-> index,
                        custom   |-> <<>>,
                        template |-> found,
                        shown    |-> TemplateAt(menuBuiltFrom, index),
                        inRange  |-> found # <<>>]
  /\ UNCHANGED <<store, url, reloads>>
  /\ ClearStepHistory
  /\ UNCHANGED <<menuVars, menuBuiltFrom, mergeVars, insVars, lsnVars, uiVars>>

\* getTemplateByIndex, the callback of chrome.storage.sync.get([STORAGE_KEY])
ClickStorageRead ==
  /\ click.pc = "storageGet"
  /\ click' = [click EXCEPT !.pc = "urlGet", !.custom = store]
  /\ UNCHANGED <<store, url, reloads>>
  /\ ClearStepHistory
  /\ UNCHANGED <<menuVars, menuBuiltFrom, mergeVars, insVars, lsnVars, uiVars>>

\* the rest of getTemplateByIndex's callback once loadDefaultTemplates() has
\* resolved to value: mergeTemplates throws on a value that is no array (the
\* promise then never resolves and the handler never goes on); otherwise the
\* cache is replaced, the menu is left as it is, and the handler returns
\* without sending when the record is missing
ResolveFromStore(value) ==
  IF ~value.isArray
  THEN /\ click' = NoClick
       /\ lastClick' = EndedClick(click, "hung", "")
       /\ UNCHANGED cachedTemplates
  ELSE LET allTemplates == mergeTemplates(click.custom, value.items)
           template == TemplateAt(allTemplates, click.index)
       IN  /\ cachedTemplates' = allTemplates
           /\ IF template = <<>>
              THEN /\ click' = NoClick
                   /\ lastClick' = EndedClick(click, "none", "")
              ELSE /\ click' = [click EXCEPT !.pc = "inject",
                                             !.template = template]
                   /\ lastClick' = ResolvedClick

ClickUrlRead ==
  /\ click.pc = "urlGet"
  /\ IF url = ""
     THEN ResolveFromStore(Arr(<<>>))
     ELSE /\ click' = [click EXCEPT !.pc = "fetch"]
          /\ lastClick' = NoClick
          /\ UNCHANGED cachedTemplates
  /\ lastFetch' = NoFetch /\ lastReload' = NoReload
  /\ UNCHANGED <<store, url, reloads>>
  /\ UNCHANGED <<defaultTemplateIds, menu, menuBuiltFrom>>
  /\ UNCHANGED <<mergeVars, insVars, lsnVars, uiVars>>

ClickFetchDone(resp) ==
  /\ click.pc = "fetch"
  /\ lastFetch' = [done |-> TRUE, resp |-> resp, value |-> loadDefaultValue(resp)]
  /\ ResolveFromStore(loadDefaultValue(resp))
  /\ lastReload' = NoReload
  /\ UNCHANGED <<store, url, reloads>>
  /\ UNCHANGED <<defaultTemplateIds, menu, menuBuiltFrom>>
  /\ UNCHANGED <<mergeVars, insVars, lsnVars, uiVars>>

\* injectContentScript has settled (its failure is caught and logged):
\* sendTemplateToTab(tab.id, template.content)
ClickSend ==
  /\ click.pc = "inject"
  /\ lastClick' = EndedClick(click, "sent", click.template[1].content)
  /\ click' = NoClick
  /\ lastFetch' = NoFetch /\ lastReload' = NoReload
  /\ UNCHANGED <<store, url, reloads>>
  /\ UNCHANGED <<menuVars, menuBuiltFrom>>
  /\ UNCHANGED <<mergeVars, insVars, lsnVars, uiVars>>

Next ==
  \/ LoadTemplatesCall(MaxReloads)
  \/ \E t \in UserLists : SaveTemplates(t, MaxReloads)
  \/ \E u \in Urls : SaveUrl(u, MaxReloads)
  \/ \E k \in 1..MaxReloads : ReloadStorageRead(k)
  \/ \E k \in 1..MaxReloads : ReloadUrlRead(k)
  \/ \E k \in 1..MaxReloads, resp \in Responses : ReloadFetchDone(k, resp)
  \/ WorkerRestart
  \/ \E k \in 1..Len(menu) : OnClicked(menu[k].id)
  \/ ClickStorageRead
  \/ ClickUrlRead
  \/ \E resp \in Responses : ClickFetchDone(resp)
  \/ ClickSend

Spec == BgInit /\ [][Next]_vars

\* the same system with fewer loadTemplates calls under way at once
ClickNext ==
  \/ LoadTemplatesCall(MaxClickReloads)
  \/ \E t \in UserLists : SaveTemplates(t, MaxClickReloads)
  \/ \E u \in Urls : SaveUrl(u, MaxClickReloads)
  \/ \E k \in 1..MaxClickReloads : ReloadStorageRead(k)
  \/ \E k \in 1..MaxClickReloads : ReloadUrlRead(k)
  \/ \E k \in 1..MaxClickReloads, resp \in Responses : ReloadFetchDone(k, resp)
  \/ WorkerRestart
  \/ \E k \in 1..Len(menu) : OnClicked(menu[k].id)
  \/ ClickStorageRead
  \/ ClickUrlRead
  \/ \E resp \in Responses : ClickFetchDone(resp)
  \/ ClickSend

SpecClick == BgInit /\ [][ClickNext]_vars

---------------------------------------------------------------------------
(* Claims about click resolution *)

InRange(index, templates) == index \in 0..(Len(templates) - 1)

\* C1: a click on the child prefix+i that ends in a message sends the content
\* of the record that was at position i of the index the menu showing that
\* child was built from.
C1_ClickSendsDisplayedRecord ==
  (lastClick.pc = "ended" /\ lastClick.outcome = "sent") =>
    /\ lastClick.shown # <<>>
    /\ lastClick.text = lastClick.shown[1].content

---------------------------------------------------------------------------
(* Claims about the remote fetch and the reloads *)

FetchFailed(resp) ==
  \/ resp.kind = "networkError"
  \/ ~resp.ok
  \/ ~resp.body.isJson
  \/ ~resp.body.value.isArray

\* C6: a fetch that ends in a network failure, a response whose status is not
\* a success, or a body that is not a JSON array makes loadDefaultTemplates
\* resolve to the empty array.
C6_FetchFailsOpen ==
  (lastFetch.done /\ FetchFailed(lastFetch.resp)) => lastFetch.value = Arr(<<>>)

\* C7: when a reload has read the store and its fetch has ended, whatever the
\* fetch ended with, the cache is the index the menu is built from and the
\* menu has a child for every valid user record the remote list does not
\* replace.
C7_ReloadAlwaysRebuilds ==
  lastReload.done =>
    /\ menuBuiltFrom = cachedTemplates
    /\ \A i \in 1..Len(lastReload.custom) :
         LET u == lastReload.custom[i] IN
         (u.name # "" /\ u.content # "" /\ u.id \notin IdsOf(lastReload.value.items)) =>
           \E k \in Children(menu) :
             /\ InRange(IndexOfItemId(menu[k].id), cachedTemplates)
             /\ cachedTemplates[IndexOfItemId(menu[k].id) + 1] = u

\* C8: when a reload that was overtaken by a later-issued one ends last and no
\* reload is left under way, the cache and the menu are those the later-issued
\* reload computed.
C8_LaterIssuedReloadWins ==
  (/\ lastReload.done /\ lastReload.applied
   /\ lastReload.overtaken /\ lastReload.newer.applied
   /\ reloads = <<>>) =>
    /\ cachedTemplates = lastReload.newer.index
    /\ menuBuiltFrom = lastReload.newer.index

---------------------------------------------------------------------------
(* Popup and options page: the handlers that write the store *)

MaxOps == 3
MaxNow == 2

\* what the popup's form can hold at a click on Save, besides the id
Forms ==
  {[name |-> "", content |-> "x"],
   [name |-> "N", content |-> "x"],
   [name |-> "N", content |-> "y"]}

\* templates.findIndex(t => t.id === id): the position, or 0 for -1
FindIndex(templates, id) ==
  IF \E i \in 1..Len(templates) : templates[i].id = id
  THEN CHOOSE i \in 1..Len(templates) :
         /\ templates[i].id = id
         /\ \A j \in 1..(i - 1) : templates[j].id # id
  ELSE 0

\* templates.splice(index, 1)
Splice(templates, index) ==
  SubSeq(templates, 1, index - 1) \o SubSeq(templates, index + 1, Len(templates))

\* Date.now().toString()
NewId(now) == ToDecimal(now)

\* handleSave after getTemplates(): an id in the form replaces the record of
\* that id, if there is one; no id pushes a new record with a fresh id
SavedTemplates(templates, form, now) ==
  IF form.id # <<>>
  THEN LET index == FindIndex(templates, form.id) IN
       IF index # 0
       THEN [templates EXCEPT ![index] =
               [id |-> form.id, name |-> form.name, content |-> form.content]]
       ELSE templates
  ELSE Append(templates,
         [id |-> NewId(now), name |-> form.name, content |-> form.content])

Ended(op, write, status) == [op |-> op, write |-> write, status |-> status]

UiOpsLeft == Len(uiCalls) + Len(uiLog) < MaxOps

PopupInit ==
  /\ MergeIdle
  /\ InsIdle
  /\ LsnIdle
  /\ MenuIdle
  /\ BgIdle
  /\ UiIdle

\* time passes
UiTick ==
  /\ uiNow < MaxNow
  /\ uiNow' = uiNow + 1
  /\ UNCHANGED <<uiStore, uiCalls, uiLog, uiIssued>>
  /\ UNCHANGED <<mergeVars, insVars, lsnVars, menuVars, bgVars, histVars>>

\* popup, handleSave up to its first await: validateForm shows the error alert
\* and ends the call, or getTemplates() is issued. The id in the form is empty
\* (New) or that of a listed record (Edit)
HandleSaveClick(id, form) ==
  /\ UiOpsLeft
  /\ id \in {<<>>} \cup IdsOf(uiStore.templates)
  /\ IF form.name = "" \/ form.content = ""
     THEN /\ uiLog' = Append(uiLog, Ended("save", "none", "failure"))
          /\ UNCHANGED uiCalls
     ELSE /\ uiCalls' = Append(uiCalls,
                [op |-> "save", pc |-> "get",
                 form |-> [id |-> id, name |-> form.name, content |-> form.content],
                 templates |-> <<>>, url |-> ""])
          /\ UNCHANGED uiLog
  /\ UNCHANGED <<uiStore, uiNow, uiIssued>>
  /\ UNCHANGED <<mergeVars, insVars, lsnVars, menuVars, bgVars, histVars>>

\* popup, a click on Remove of a listed record: getTemplates() is issued
RemoveClick(id) ==
  /\ UiOpsLeft
  /\ id \in IdsOf(uiStore.templates)
  /\ uiCalls' = Append(uiCalls,
        [op |-> "remove", pc |-> "get",
         form |-> [id |-> id, name |-> "", content |-> ""],
         templates |-> <<>>, url |-> ""])
  /\ UNCHANGED <<uiStore, uiNow, uiLog, uiIssued>>
  /\ UNCHANGED <<mergeVars, insVars, lsnVars, menuVars, bgVars, histVars>>

\* options page, a click on Save: chrome.storage.sync.set is issued
SaveUrlClick(u) ==
  /\ UiOpsLeft
  /\ uiCalls' = Append(uiCalls,
        [op |-> "saveUrl", pc |-> "set",
         form |-> [id |-> <<>>, name |-> "", content |-> ""],
         templates |-> <<>>, url |-> u])
  /\ UNCHANGED <<uiStore, uiNow, uiLog, uiIssued>>
  /\ UNCHANGED <<mergeVars, insVars, lsnVars, menuVars, bgVars, histVars>>

\* getTemplates() resolves for call k. handleSave builds the list to write and
\* issues saveTemplates; the Remove handler splices the record out and issues
\* saveTemplates, or ends when the record is no longer there
GetTemplatesDone(k) ==
  /\ k \in 1..Len(uiCalls)
  /\ uiCalls[k].pc = "get"
  /\ LET c == uiCalls[k]
         templates == uiStore.templates
     IN  IF c.op = "save"
         THEN /\ uiCalls' = [uiCalls EXCEPT ![k] =
                   [c EXCEPT !.pc = "set",
                             !.templates = SavedTemplates(templates, c.form, uiNow)]]
              /\ uiIssued' = IF c.form.id = <<>>
                             THEN Append(uiIssued, NewId(uiNow))
                             ELSE uiIssued
              /\ UNCHANGED uiLog
         ELSE LET index == FindIndex(templates, c.form.id) IN
              /\ IF index # 0
                 THEN /\ uiCalls' = [uiCalls EXCEPT ![k] =
                           [c EXCEPT !.pc = "set",
                                     !.templates = Splice(templates, index)]]
                      /\ UNCHANGED uiLog
                 ELSE /\ uiCalls' = RemoveAt(uiCalls, k)
                      /\ uiLog' = Append(uiLog, Ended("remove", "none", "none"))
              /\ UNCHANGED uiIssued
  /\ UNCHANGED <<uiStore, uiNow>>
  /\ UNCHANGED <<mergeVars, insVars, lsnVars, menuVars, bgVars, histVars>>

\* the status the handler shows once the callback of chrome.storage.sync.set
\* has run: the options page looks at chrome.runtime.lastError; the popup's
\* saveTemplates resolves whatever happened, after which handleSave shows its
\* success alert and the Remove handler shows nothing
StatusShown(op, ok) ==
  IF op = "saveUrl" THEN (IF ok THEN "success" ELSE "failure")
  ELSE IF op = "save" THEN "success"
  ELSE "none"

\* the callback of chrome.storage.sync.set for call k: the write took effect
\* (ok) or failed with chrome.runtime.lastError set (quota, rate limit)
StorageSetDone(k, ok) ==
  /\ k \in 1..Len(uiCalls)
  /\ uiCalls[k].pc = "set"
  /\ LET c == uiCalls[k] IN
     /\ uiStore' = IF ~ok THEN uiStore
                   ELSE IF c.op = "saveUrl" THEN [uiStore EXCEPT !.url = c.url]
                   ELSE [uiStore EXCEPT !.templates = c.templates]
     /\ uiLog' = Append(uiLog,
           Ended(c.op, IF ok THEN "ok" ELSE "failed", StatusShown(c.op, ok)))
  /\ uiCalls' = RemoveAt(uiCalls, k)
  /\ UNCHANGED <<uiNow, uiIssued>>
  /\ UNCHANGED <<mergeVars, insVars, lsnVars, menuVars, bgVars, histVars>>

PopupNext ==
  \/ UiTick
  \/ \E form \in Forms : \E id \in {<<>>} \cup IdsOf(uiStore.templates) :
       HandleSaveClick(id, form)
  \/ \E id \in IdsOf(uiStore.templates) : RemoveClick(id)
  \/ \E u \in Urls : SaveUrlClick(u)
  \/ \E k \in 1..MaxOps : GetTemplatesDone(k)
  \/ \E k \in 1..MaxOps, ok \in BOOLEAN : StorageSetDone(k, ok)

SpecPopup == PopupInit /\ [][PopupNext]_vars

\* C16: whenever the store write of a user's save fails (the URL save of the
\* options page, a template save of the popup), the status shown for that save
\* is a failure and not a success.
C16_WriteFailureSurfaced ==
  \A k \in 1..Len(uiLog) :
    (uiLog[k].write = "failed" /\ uiLog[k].op \in {"save", "saveUrl"}) =>
      uiLog[k].status = "failure"

\* C17: no two records of the stored user list share an id, and no id is given
\* to a new record twice.
C17_IdsUniqueNeverReused ==
  /\ \A i, j \in 1..Len(uiStore.templates) :
       i # j => uiStore.templates[i].id # uiStore.templates[j].id
  /\ \A i, j \in 1..Len(uiIssued) : i # j => uiIssued[i] # uiIssued[j]

=============================================================================
